---- MODULE Spec2Model ----
(***************************************************************************)
(* qanta/guesser/abstract.py: AbstractGuesser.generate_guesses,            *)
(* save_guesses, load_guesses and preprocess_all_guesses.                  *)
(*                                                                         *)
(* A DataFrame is a sequence of rows; a row is a record with the columns   *)
(* qnum, sentence, token, guess, score, fold, guesser.  The file system is *)
(* a function from paths to file contents.                                 *)
(***************************************************************************)
EXTENDS Integers, Sequences, FiniteSets, TLC

VARIABLES
    pc,                   \* position of the generate_guesses call
    self,                 \* the guesser generate_guesses runs on
    max_n_guesses,        \* argument of generate_guesses
    folds,                \* argument of generate_guesses
    fi,                   \* index of the next fold of the loop of line 152
    question_texts,       \* the lists of lines 146-150
    q_folds,
    q_qnums,
    q_sentences,
    q_tokens,
    guess_calls,          \* the calls made to self.guess, in order
    guesses_per_question, \* what self.guess returned
    guess_df,             \* the guess table (returned, or about to be saved)
    disk,                 \* path -> content of the guess file, or NoFile
    saved,                \* directories save_guesses(guess_df, .) has written
    op,                   \* the last save_guesses / load_guesses call and its outcome
    question_map,         \* QuestionDatabase().all_questions(): qnum -> Question
    agg,                  \* outcome of the last preprocess_all_guesses call
    index_file,           \* content of c.GUESSER_INDEX
    tasks_file,           \* content of c.GUESS_TASKS
    runs                  \* number of preprocess_all_guesses calls made so far

gen_vars == <<pc, self, max_n_guesses, folds, fi, question_texts, q_folds, q_qnums,
              q_sentences, q_tokens, guess_calls, guesses_per_question>>
persist_vars == <<disk, saved, op>>
agg_vars == <<question_map, agg, index_file, tasks_file, runs>>
vars == <<gen_vars, guess_df, persist_vars, agg_vars>>

(***************************************************************************)
(* Bounds of the model.                                                    *)
(***************************************************************************)
\* longest fold selection passed to an operation
MaxFolds == 2
\* largest max_n_guesses
MaxN == 2
\* most rows of a table handed to save_guesses
MaxRows == 2
\* most rows of the table one guesser saves before aggregation
MaxAggRows == 2
\* most calls of preprocess_all_guesses in a row
MaxRuns == 2

(***************************************************************************)
(* Folds, guessers, questions.                                             *)
(***************************************************************************)
\* the fold list of save_guesses
SAVE_FOLDS == <<"train", "dev", "test", "devtest">>

\* c.ALL_FOLDS, the default fold selection of load_guesses
ALL_FOLDS == <<"train", "dev", "test", "devtest">>

\* a fold tag outside the list of save_guesses (the tags of cli.py export_db)
FOLD_NAMES == {"train", "dev", "test", "devtest", "guessdev"}

\* c.GUESSER_LIST: (guesser_class, config) pairs, the class alone is used
GUESSER_LIST == <<"qanta.guesser.dan.DANGuesser", "qanta.guesser.tfidf.TfidfGuesser">>

\* c.GUESSER_TARGET_PREFIX
GUESSER_TARGET_PREFIX == "output/guesser"

Range(s) == {s[i] : i \in 1..Len(s)}

GUESSERS == Range(GUESSER_LIST)

\* AbstractGuesser.display_name of each guesser class
display_name(g) ==
    IF g = "qanta.guesser.dan.DANGuesser" THEN "DAN" ELSE "TF-IDF"

\* the question store: text is a sequence of sentences, a sentence a sequence of tokens
QUESTIONS ==
    << [qnum |-> 1, text |-> << <<"who", "led">> >>, page |-> "Napoleon", fold |-> "train"],
       [qnum |-> 2, text |-> << <<"what">> >>, page |-> "Caesar", fold |-> "dev"],
       [qnum |-> 3, text |-> << <<"name">> >>, page |-> "Napoleon", fold |-> "dev"] >>

\* QuizBowlEvaluationDataset().questions_by_fold()
questions_by_fold(fold) == SelectSeq(QUESTIONS, LAMBDA q : q.fold = fold)

RECURSIVE Flatten(_)
Flatten(ss) == IF ss = <<>> THEN <<>> ELSE Head(ss) \o Flatten(Tail(ss))

\* Question.partials(): every incremental prefix, as (sentence, token, text_list)
partials(q) ==
    Flatten([s \in 1..Len(q.text) |->
        [t \in 1..Len(q.text[s]) |->
            <<s - 1, t - 1,
              Flatten([k \in 1..(s - 1) |-> q.text[k]]) \o SubSeq(q.text[s], 1, t)>>]])

\* ' '.join(text_list)
RECURSIVE join(_)
join(text_list) ==
    IF text_list = <<>> THEN ""
    ELSE IF Len(text_list) = 1 THEN Head(text_list)
    ELSE Head(text_list) \o " " \o join(Tail(text_list))

(***************************************************************************)
(* generate_guesses                                                        *)
(***************************************************************************)
FoldSelections == UNION {[1..n -> FOLD_NAMES \ {"guessdev"}] : n \in 1..MaxFolds}

\* lines 154-161: the prefixes of one question, one record per append
QuestionPositions(fold, q) ==
    [p \in 1..Len(partials(q)) |->
        [text |-> join(partials(q)[p][3]), fold |-> fold, qnum |-> q.qnum,
         sentence |-> partials(q)[p][1], token |-> partials(q)[p][2]]]

\* the loop over the questions of a fold left after its first question
FoldPositionsFirstQuestion(fold) ==
    Flatten([i \in 1..(IF questions_by_fold(fold) = <<>> THEN 0 ELSE 1) |->
        QuestionPositions(fold, questions_by_fold(fold)[i])])

\* lines 153-161: one iteration of the loop over folds
FoldPositions(fold) ==
    Flatten([i \in 1..Len(questions_by_fold(fold)) |->
        QuestionPositions(fold, questions_by_fold(fold)[i])])

Column(rows, c) == [i \in 1..Len(rows) |-> rows[i][c]]


\* what self.guess may return at one batch position: (answer, score) pairs
GUESS_LISTS ==
    { <<>>,
      << <<"Caesar", 3>> >>,
      << <<"Napoleon", 9>>, <<"Caesar", 3>> >> }

\* self.guess(questions, max_n_guesses) is abstract: any list of guess lists of
\* the batch length, or a list one shorter or one longer
GuessResults(n) ==
    [1..n -> GUESS_LISTS] \cup
    {[i \in 1..m |-> l] : m \in {k \in {n - 1, n + 1} : k >= 0}, l \in GUESS_LISTS}

\* the loop of line 182 left after the best guess
ExpandGuessesBestOnly(guesses_with_scores, fold, qnum, sentence, token, guesser_name) ==
    [j \in 1..(IF guesses_with_scores = <<>> THEN 0 ELSE 1) |->
        [qnum |-> qnum, sentence |-> sentence, token |-> token,
         guess |-> guesses_with_scores[j][1], score |-> guesses_with_scores[j][2],
         fold |-> fold, guesser |-> guesser_name]]

\* lines 182-189: the rows of one batch position
ExpandGuesses(guesses_with_scores, fold, qnum, sentence, token, guesser_name) ==
    [j \in 1..Len(guesses_with_scores) |->
        [qnum |-> qnum, sentence |-> sentence, token |-> token,
         guess |-> guesses_with_scores[j][1], score |-> guesses_with_scores[j][2],
         fold |-> fold, guesser |-> guesser_name]]

\* lines 167-199: the DataFrame built from the guesses
BuildDataFrame(texts, gpq, qfolds, qqnums, qsentences, qtokens, guesser_name) ==
    Flatten([i \in 1..Len(texts) |->
        ExpandGuesses(gpq[i], qfolds[i], qqnums[i], qsentences[i], qtokens[i],
                      guesser_name)])

\* an assertion that only rejects a result shorter than the batch
AssertNotShorter(gpq, texts) == Len(gpq) >= Len(texts)

\* line 165
AssertLengths(gpq, texts) == Len(gpq) = Len(texts)

\* line 163: the arguments self.guess is called with
GuessCall(texts, n) == [questions |-> texts, max_n_guesses |-> n]

\* lines 143-150: generate_guesses is entered
Generate(g, n, F) ==
    /\ pc = "idle"
    /\ pc' = "collect"
    /\ self' = g
    /\ max_n_guesses' = n
    /\ folds' = F
    /\ fi' = 1
    /\ question_texts' = <<>>
    /\ q_folds' = <<>>
    /\ q_qnums' = <<>>
    /\ q_sentences' = <<>>
    /\ q_tokens' = <<>>
    /\ guess_calls' = <<>>
    /\ guesses_per_question' = <<>>
    /\ guess_df' = <<>>
    /\ UNCHANGED <<persist_vars, agg_vars>>

\* lines 152-161: one iteration of the loop over folds
CollectFold ==
    /\ pc = "collect"
    /\ fi <= Len(folds)
    /\ LET ps == FoldPositions(folds[fi]) IN
        /\ question_texts' = question_texts \o Column(ps, "text")
        /\ q_folds' = q_folds \o Column(ps, "fold")
        /\ q_qnums' = q_qnums \o Column(ps, "qnum")
        /\ q_sentences' = q_sentences \o Column(ps, "sentence")
        /\ q_tokens' = q_tokens \o Column(ps, "token")
    /\ fi' = fi + 1
    /\ UNCHANGED <<pc, self, max_n_guesses, folds, guess_calls, guesses_per_question,
                   guess_df, persist_vars, agg_vars>>

\* line 163: the loop is over, self.guess is called and returns
CallGuess ==
    /\ pc = "collect"
    /\ fi > Len(folds)
    /\ guess_calls' = Append(guess_calls, GuessCall(question_texts, max_n_guesses))
    /\ \E res \in GuessResults(Len(question_texts)) : guesses_per_question' = res
    /\ pc' = "guessed"
    /\ UNCHANGED <<self, max_n_guesses, folds, fi, question_texts, q_folds, q_qnums,
                   q_sentences, q_tokens, guess_df, persist_vars, agg_vars>>

\* lines 165-199: the assertion, then the table is built and returned
BuildTable ==
    /\ pc = "guessed"
    /\ IF AssertLengths(guesses_per_question, question_texts)
       THEN /\ guess_df' = BuildDataFrame(question_texts, guesses_per_question, q_folds,
                                          q_qnums, q_sentences, q_tokens,
                                          display_name(self))
            /\ pc' = "returned"
       ELSE /\ guess_df' = guess_df
            /\ pc' = "AssertionError"
    /\ UNCHANGED <<self, max_n_guesses, folds, fi, question_texts, q_folds, q_qnums,
                   q_sentences, q_tokens, guess_calls, guesses_per_question,
                   persist_vars, agg_vars>>


(***************************************************************************)
(* save_guesses, load_guesses                                              *)
(***************************************************************************)
\* line 203: os.path.join(directory, 'guesses_{}.pickle'.format(fold))
guess_path(directory, fold) == directory \o "/guesses_" \o fold \o ".pickle"

\* line 233: os.path.join(c.GUESSER_TARGET_PREFIX, guesser_class)
GuesserDirectory(guesser_class) == GUESSER_TARGET_PREFIX \o "/" \o guesser_class

DIRECTORIES == {GuesserDirectory(g) : g \in GUESSERS}

PATHS == {guess_path(d, f) : d \in DIRECTORIES, f \in FOLD_NAMES}

NoFile == [exists |-> FALSE, rows |-> <<>>]

\* DataFrame.to_pickle: the file holds the rows of the frame, in order
to_pickle(df) == [exists |-> TRUE, rows |-> df]

\* save_guesses without the fold filter of line 209
FoldFrameUnfiltered(df, fold) == df

\* line 209: guess_df[guess_df.fold == fold]
FoldFrame(df, fold) == SelectSeq(df, LAMBDA r : r.fold = fold)

\* save_guesses writing no file for a fold without rows
RECURSIVE SaveLoopSkipEmpty(_, _, _, _)
SaveLoopSkipEmpty(dsk, df, directory, i) ==
    IF i > Len(SAVE_FOLDS) THEN dsk
    ELSE SaveLoopSkipEmpty(
            IF FoldFrame(df, SAVE_FOLDS[i]) = <<>> THEN dsk
            ELSE [dsk EXCEPT ![guess_path(directory, SAVE_FOLDS[i])] =
                      to_pickle(FoldFrame(df, SAVE_FOLDS[i]))],
            df, directory, i + 1)

\* lines 208-211: the loop of save_guesses from its i-th fold on
RECURSIVE SaveLoop(_, _, _, _)
SaveLoop(dsk, df, directory, i) ==
    IF i > Len(SAVE_FOLDS) THEN dsk
    ELSE SaveLoop([dsk EXCEPT ![guess_path(directory, SAVE_FOLDS[i])] =
                       to_pickle(FoldFrame(df, SAVE_FOLDS[i]))],
                  df, directory, i + 1)

\* lines 206-211: the file system after save_guesses(df, directory)
save_guesses(dsk, df, directory) == SaveLoop(dsk, df, directory, 1)

\* load_guesses passing over the folds whose file is absent
RECURSIVE LoadLoopSkipMissing(_, _, _, _, _)
LoadLoopSkipMissing(dsk, directory, F, i, df) ==
    IF i > Len(F) THEN [status |-> "ok", rows |-> df]
    ELSE IF ~dsk[guess_path(directory, F[i])].exists
         THEN LoadLoopSkipMissing(dsk, directory, F, i + 1, df)
         ELSE LoadLoopSkipMissing(dsk, directory, F, i + 1,
                                  df \o dsk[guess_path(directory, F[i])].rows)

\* lines 217-223: the loop of load_guesses from its i-th fold on; pd.read_pickle
\* raises FileNotFoundError on a path that does not exist
RECURSIVE LoadLoop(_, _, _, _, _)
LoadLoop(dsk, directory, F, i, df) ==
    IF i > Len(F) THEN [status |-> "ok", rows |-> df]
    ELSE IF ~dsk[guess_path(directory, F[i])].exists
         THEN [status |-> "FileNotFoundError", rows |-> <<>>]
         ELSE LoadLoop(dsk, directory, F, i + 1,
                       df \o dsk[guess_path(directory, F[i])].rows)

\* lines 214-225: the outcome of load_guesses(directory, F)
load_guesses(dsk, directory, F) ==
    IF ~(Len(F) > 0) THEN [status |-> "AssertionError", rows |-> <<>>]
    ELSE LoadLoop(dsk, directory, F, 1, <<>>)

NoOp == [name |-> "none", directory |-> "", folds |-> <<>>, status |-> "none",
         rows |-> <<>>]

\* save_guesses(guess_df, directory) is called and returns
SaveGuesses(directory) ==
    /\ disk' = save_guesses(disk, guess_df, directory)
    /\ saved' = saved \cup {directory}
    /\ op' = [name |-> "save_guesses", directory |-> directory, folds |-> <<>>,
              status |-> "ok", rows |-> <<>>]
    /\ UNCHANGED <<gen_vars, guess_df, agg_vars>>

\* load_guesses(directory, F) is called and returns or raises
LoadGuesses(directory, F) ==
    /\ op' = [name |-> "load_guesses", directory |-> directory, folds |-> F,
              status |-> load_guesses(disk, directory, F).status,
              rows |-> load_guesses(disk, directory, F).rows]
    /\ UNCHANGED <<gen_vars, guess_df, disk, saved, agg_vars>>


(***************************************************************************)
(* preprocess_all_guesses                                                  *)
(***************************************************************************)
\* lines 231-238: the tables of the guessers of c.GUESSER_LIST from the i-th on,
\* each loaded with the default folds and concatenated
RECURSIVE LoadAll(_, _, _)
LoadAll(dsk, i, df) ==
    IF i > Len(GUESSER_LIST) THEN [status |-> "ok", rows |-> df]
    ELSE LET r == load_guesses(dsk, GuesserDirectory(GUESSER_LIST[i]), ALL_FOLDS)
         IN  IF r.status # "ok" THEN r
             ELSE LoadAll(dsk, i + 1, df \o r.rows)

\* the key of groupby(['qnum', 'sentence', 'token'])
GroupKey(r) == <<r.qnum, r.sentence, r.token>>

KeyLess(a, b) ==
    \/ a[1] < b[1]
    \/ a[1] = b[1] /\ a[2] < b[2]
    \/ a[1] = b[1] /\ a[2] = b[2] /\ a[3] < b[3]

\* groupby iterates over its keys in sorted order
RECURSIVE SortedKeys(_)
SortedKeys(S) ==
    IF S = {} THEN <<>>
    ELSE LET m == CHOOSE x \in S : \A y \in S \ {x} : KeyLess(x, y)
         IN  <<m>> \o SortedKeys(S \ {m})

\* line 242: the rows of one group, in table order
Group(df, key) == SelectSeq(df, LAMBDA r : GroupKey(r) = key)

\* the index filled with every guess of the group for every guesser of the group
AddCoverageAnyGuesser(guess_map, group, qnum, sentence, token) ==
    LET seen == {r.guesser : r \in Range(group)} IN
    [g \in (DOMAIN guess_map) \cup seen |->
        (IF g \in DOMAIN guess_map THEN guess_map[g] ELSE {}) \cup
        (IF g \in seen
         THEN {<<qnum, sentence, token, r.guess>> : r \in Range(group)}
         ELSE {})]

\* lines 246-249: guess_map after the (guess, guesser) groups of one group
AddCoverage(guess_map, group, qnum, sentence, token) ==
    LET seen == {r.guesser : r \in Range(group)} IN
    [g \in (DOMAIN guess_map) \cup seen |->
        (IF g \in DOMAIN guess_map THEN guess_map[g] ELSE {}) \cup
        {<<qnum, sentence, token, r.guess>> : r \in {x \in Range(group) : x.guesser = g}}]

\* group.drop('guesser', axis=1)
drop_guesser(rows) ==
    [i \in 1..Len(rows) |->
        [qnum |-> rows[i].qnum, sentence |-> rows[i].sentence, token |-> rows[i].token,
         guess |-> rows[i].guess, score |-> rows[i].score, fold |-> rows[i].fold]]

\* DataFrame.drop_duplicates: the first occurrence of each row is kept
RECURSIVE drop_duplicates(_)
drop_duplicates(rows) ==
    IF rows = <<>> THEN <<>>
    ELSE <<Head(rows)>> \o
         drop_duplicates(SelectSeq(Tail(rows), LAMBDA r : r # Head(rows)))

\* the Task of one group built without drop_duplicates
MakeTaskWithDuplicates(question, group) ==
    [question |-> question, guess_df |-> drop_guesser(group)]

\* lines 251-253: the Task of one group
MakeTask(question, group) ==
    [question |-> question, guess_df |-> drop_duplicates(drop_guesser(group))]

\* line 251: question_map[qnum] raises KeyError on a qnum it does not hold
HasQuestion(qmap, qnum) == qnum \in DOMAIN qmap

\* lines 242-253: the loop over the groups from the i-th key on
RECURSIVE GroupLoop(_, _, _, _, _, _)
GroupLoop(df, keys, i, guess_map, tasks, qmap) ==
    IF i > Len(keys) THEN [status |-> "ok", guess_map |-> guess_map, tasks |-> tasks]
    ELSE LET name == keys[i]
             group == Group(df, name)
             gm == AddCoverage(guess_map, group, name[1], name[2], name[3])
         IN  IF ~HasQuestion(qmap, name[1])
             THEN [status |-> "KeyError", guess_map |-> gm, tasks |-> tasks]
             ELSE GroupLoop(df, keys, i + 1, gm,
                            Append(tasks, MakeTask(qmap[name[1]], group)), qmap)

\* lines 229-253: the outcome of preprocess_all_guesses before the artifacts are written
preprocess(dsk, qmap) ==
    LET loaded == LoadAll(dsk, 1, <<>>) IN
    IF loaded.status # "ok"
    THEN [status |-> loaded.status, guess_map |-> <<>>, tasks |-> <<>>]
    ELSE GroupLoop(loaded.rows, SortedKeys({GroupKey(r) : r \in Range(loaded.rows)}),
                   1, <<>>, <<>>, qmap)

\* the index written whether or not the loop over the groups has raised
DumpIndexAlways(status, guess_map, old) ==
    IF status \in {"ok", "KeyError"} THEN [exists |-> TRUE, guess_map |-> guess_map]
    ELSE old

\* lines 255-256: pickle.dump(guess_map, f) into c.GUESSER_INDEX
DumpIndex(status, guess_map, old) ==
    IF status = "ok" THEN [exists |-> TRUE, guess_map |-> guess_map] ELSE old

\* the task list added to what c.GUESS_TASKS already holds
DumpTasksAppend(status, tasks, old) ==
    IF status = "ok" THEN [exists |-> TRUE, tasks |-> old.tasks \o tasks] ELSE old

\* lines 258-259: pickle.dump(tasks, f) into c.GUESS_TASKS, opened with 'wb'
DumpTasks(status, tasks, old) ==
    IF status = "ok" THEN [exists |-> TRUE, tasks |-> tasks] ELSE old

\* preprocess_all_guesses() is called and returns or raises
Preprocess ==
    /\ runs < MaxRuns
    /\ runs' = runs + 1
    /\ LET r == preprocess(disk, question_map) IN
        /\ agg' = r
        /\ index_file' = DumpIndex(r.status, r.guess_map, index_file)
        /\ tasks_file' = DumpTasks(r.status, r.tasks, tasks_file)
    /\ UNCHANGED <<gen_vars, guess_df, persist_vars, question_map>>


(***************************************************************************)
(* Specifications                                                          *)
(***************************************************************************)
SeqsUpTo(S, n) == UNION {[1..m -> S] : m \in 0..n}

EmptyDisk == [p \in PATHS |-> NoFile]

NoAgg == [status |-> "none", guess_map |-> <<>>, tasks |-> <<>>]

NoIndex == [exists |-> FALSE, guess_map |-> <<>>]

NoTasks == [exists |-> FALSE, tasks |-> <<>>]

\* question_db.all_questions() over the questions with a qnum of S
QuestionMap(S) ==
    [n \in S |-> QUESTIONS[CHOOSE i \in 1..Len(QUESTIONS) : QUESTIONS[i].qnum = n]]

AllQnums == {QUESTIONS[i].qnum : i \in 1..Len(QUESTIONS)}

GenIdle ==
    /\ pc = "idle"
    /\ self = GUESSER_LIST[1]
    /\ max_n_guesses = 1
    /\ folds = <<>>
    /\ fi = 1
    /\ question_texts = <<>>
    /\ q_folds = <<>>
    /\ q_qnums = <<>>
    /\ q_sentences = <<>>
    /\ q_tokens = <<>>
    /\ guess_calls = <<>>
    /\ guesses_per_question = <<>>

AggIdle ==
    /\ question_map = QuestionMap(AllQnums)
    /\ agg = NoAgg
    /\ index_file = NoIndex
    /\ tasks_file = NoTasks
    /\ runs = 0

\* generate_guesses of any guesser, on any fold selection
InitGen ==
    /\ GenIdle
    /\ guess_df = <<>>
    /\ disk = EmptyDisk
    /\ saved = {}
    /\ op = NoOp
    /\ AggIdle

NextGen ==
    \/ \E g \in GUESSERS, n \in 1..MaxN, F \in FoldSelections : Generate(g, n, F)
    \/ CollectFold
    \/ CallGuess
    \/ BuildTable

SpecGen == InitGen /\ [][NextGen]_vars

\* the rows of the tables handed to save_guesses
Row(qnum, sentence, token, guess, score, fold, guesser) ==
    [qnum |-> qnum, sentence |-> sentence, token |-> token, guess |-> guess,
     score |-> score, fold |-> fold, guesser |-> guesser]

PERSIST_ROWS ==
    { Row(1, 0, 0, "Napoleon", 9, "train", "DAN"),
      Row(1, 0, 0, "Caesar", 3, "train", "DAN"),
      Row(2, 0, 0, "Caesar", 3, "dev", "DAN"),
      Row(3, 0, 0, "Napoleon", 9, "guessdev", "DAN") }

\* a file left in a directory by an earlier run
STALE_FILE == to_pickle(<<Row(3, 0, 0, "Caesar", 3, "test", "TF-IDF")>>)

\* the file systems save_guesses and load_guesses may start on: in every
\* directory the files of the folds of S are left over
StaleDisk(S) ==
    [p \in PATHS |->
        IF \E d \in DIRECTORIES, f \in S : p = guess_path(d, f) THEN STALE_FILE
        ELSE NoFile]

\* save_guesses and load_guesses, in any order, on any table
InitPersist ==
    /\ GenIdle
    /\ guess_df \in SeqsUpTo(PERSIST_ROWS, MaxRows)
    /\ disk \in {StaleDisk(S) : S \in SUBSET {"train", "guessdev"}}
    /\ saved = {}
    /\ op = NoOp
    /\ AggIdle

\* load_guesses only reads: a load made right after another load reaches no file
\* system and no outcome that the first of them does not reach, so the caller of
\* this specification makes its loads after a save or at the start
NextPersist ==
    \/ \E d \in DIRECTORIES : SaveGuesses(d)
    \/ /\ op.name # "load_guesses"
       /\ \E d \in DIRECTORIES, F \in SeqsUpTo(FOLD_NAMES, MaxFolds) : LoadGuesses(d, F)

SpecPersist == InitPersist /\ [][NextPersist]_vars

\* the rows a guesser may have generated before aggregation
AGG_ROWS(guesser) ==
    IF guesser = display_name(GUESSER_LIST[1])
    THEN { Row(1, 0, 0, "Napoleon", 9, "train", guesser),
           Row(1, 0, 0, "Napoleon", 3, "train", guesser),
           Row(1, 0, 1, "Napoleon", 9, "train", guesser),
           Row(2, 0, 0, "Napoleon", 9, "train", guesser) }
    ELSE { Row(1, 0, 0, "Napoleon", 9, "train", guesser),
           Row(1, 0, 0, "Napoleon", 9, "dev", guesser),
           Row(1, 0, 0, "Caesar", 9, "train", guesser),
           Row(2, 1, 0, "Napoleon", 9, "train", guesser) }

\* the pipeline task of one guesser: its guess table is generated and saved;
\* every writer is done before preprocess_all_guesses reads
GuesserRun(g, T) ==
    /\ agg.status = "none"
    /\ GuesserDirectory(g) \notin saved
    /\ disk' = save_guesses(disk, T, GuesserDirectory(g))
    /\ saved' = saved \cup {GuesserDirectory(g)}
    /\ UNCHANGED <<gen_vars, guess_df, op, agg_vars>>

InitAgg ==
    /\ GenIdle
    /\ guess_df = <<>>
    /\ disk = EmptyDisk
    /\ saved = {}
    /\ op = NoOp
    /\ question_map \in {QuestionMap(S) : S \in {AllQnums, AllQnums \ {1}, AllQnums \ {2}}}
    /\ agg = NoAgg
    /\ index_file = NoIndex
    /\ tasks_file = NoTasks
    /\ runs = 0

NextAgg ==
    \/ \E g \in GUESSERS :
        \E T \in SeqsUpTo(AGG_ROWS(display_name(g)), MaxAggRows) : GuesserRun(g, T)
    \/ Preprocess

SpecAgg == InitAgg /\ [][NextAgg]_vars


(***************************************************************************)
(* Properties of save_guesses and load_guesses (SpecPersist)               *)
(***************************************************************************)
RowsOf(df) == Range(df)

LoadReturned == op.name = "load_guesses"

\* the last call is a load from a directory that save_guesses(guess_df, .) wrote
LoadAfterSave == LoadReturned /\ op.directory \in saved /\ Len(op.folds) > 0

\* the load has returned exactly the rows of guess_df of the requested folds
RoundTrip ==
    /\ op.status = "ok"
    /\ RowsOf(op.rows) = {r \in RowsOf(guess_df) : r.fold \in Range(op.folds)}

\* C1 as stated: after save_guesses(T, dir), load_guesses(dir, F) returns, for any
\* non-empty fold selection F, a table whose set of rows is the set of rows of T
\* whose fold is in F.
C1_RoundTripAnyFolds == LoadAfterSave => RoundTrip

\* C1 amended: after save_guesses(T, dir), load_guesses(dir, F) returns, for any
\* non-empty selection F of the folds train, dev, test and devtest, a table whose
\* set of rows is the set of rows of T whose fold is in F: no row is lost, added
\* or altered.
C1_RoundTrip ==
    (LoadAfterSave /\ Range(op.folds) \subseteq Range(SAVE_FOLDS)) => RoundTrip

\* a load of two of the four folds after a save of a table with a train row:
\* it returns rows of the table and leaves rows of the table out
C1_Witness ==
    /\ LoadAfterSave
    /\ Range(op.folds) \subseteq Range(SAVE_FOLDS)
    /\ Len(op.folds) = 2
    /\ op.folds[1] # op.folds[2]
    /\ op.rows # <<>>
    /\ RowsOf(op.rows) # RowsOf(guess_df)
    /\ \E r \in RowsOf(guess_df) : r.fold = "train"

FileExists(directory, fold) == disk[guess_path(directory, fold)].exists

\* C2: load_guesses(dir, F) fails with a not-found error whenever the file of at
\* least one fold of F is absent from dir, whatever the position of that fold in F
\* and whatever other fold files exist; it returns no table then.
C2_MissingFoldFails ==
    (LoadReturned /\ \E i \in 1..Len(op.folds) : ~FileExists(op.directory, op.folds[i]))
        => (op.status = "FileNotFoundError" /\ op.rows = <<>>)

\* the file of the first requested fold exists and holds rows, the file of the
\* second one is absent, and the load has failed
C2_Witness ==
    /\ LoadReturned
    /\ Len(op.folds) = 2
    /\ FileExists(op.directory, op.folds[1])
    /\ disk[guess_path(op.directory, op.folds[1])].rows # <<>>
    /\ ~FileExists(op.directory, op.folds[2])
    /\ op.status = "FileNotFoundError"

\* C3: after save_guesses(T, dir), dir holds a file for each of the folds train,
\* dev, test and devtest, also for a fold with no row in T; load_guesses(dir, F)
\* succeeds for every non-empty F drawn from those folds and returns zero rows when
\* T has no row of a fold of F.
C3_EveryFoldHasFile ==
    /\ \A d \in saved : \A i \in 1..Len(SAVE_FOLDS) :
        /\ FileExists(d, SAVE_FOLDS[i])
        /\ (\A r \in RowsOf(guess_df) : r.fold # SAVE_FOLDS[i])
              => disk[guess_path(d, SAVE_FOLDS[i])].rows = <<>>
    /\ (LoadAfterSave /\ Range(op.folds) \subseteq Range(SAVE_FOLDS))
        => /\ op.status = "ok"
           /\ (\A r \in RowsOf(guess_df) : r.fold \notin Range(op.folds))
                 => op.rows = <<>>

\* a non-empty table without a test row was saved and the test fold is loaded:
\* the load succeeds with zero rows
C3_Witness ==
    /\ LoadAfterSave
    /\ op.folds = <<"test">>
    /\ guess_df # <<>>
    /\ op.status = "ok"
    /\ op.rows = <<>>

(***************************************************************************)
(* Properties of generate_guesses (SpecGen)                                *)
(***************************************************************************)
\* the prefixes of a fold selection F, as (index in F, index of the question in
\* its fold, index in the partials of the question)
BatchIndex(F) ==
    UNION {UNION {{<<k, qi, pi>> :
                      pi \in 1..Len(partials(questions_by_fold(F[k])[qi]))} :
                  qi \in 1..Len(questions_by_fold(F[k]))} :
           k \in 1..Len(F)}

\* fold order, then question order, then partials order
Before(a, b) ==
    \/ a[1] < b[1]
    \/ a[1] = b[1] /\ a[2] < b[2]
    \/ a[1] = b[1] /\ a[2] = b[2] /\ a[3] < b[3]

\* the batch position of a prefix
Rank(F, t) == Cardinality({u \in BatchIndex(F) : Before(u, t)}) + 1

\* the text and the origin of a prefix
PrefixOf(F, t) ==
    LET q == questions_by_fold(F[t[1]])[t[2]]
        p == partials(q)[t[3]]
    IN  [text |-> join(p[3]), fold |-> F[t[1]], qnum |-> q.qnum,
         sentence |-> p[1], token |-> p[2]]

GuessWasCalled == pc \in {"guessed", "returned", "AssertionError"}

\* C4: in every run of generate_guesses(max_n_guesses, folds), guess is invoked
\* exactly once, after all prefixes of all questions of all requested folds have
\* been collected, with the whole batch (one text per prefix, in fold order, then
\* question order, then partials order) and the requested max_n_guesses; it is
\* not invoked per question or per fold, also when the batch is empty.
C4_GuessCalledOnceOnWholeBatch ==
    /\ pc \in {"idle", "collect"} => guess_calls = <<>>
    /\ GuessWasCalled =>
        /\ fi = Len(folds) + 1
        /\ Len(guess_calls) = 1
        /\ guess_calls[1].max_n_guesses = max_n_guesses
        /\ Len(guess_calls[1].questions) = Cardinality(BatchIndex(folds))
        /\ \A t \in BatchIndex(folds) :
            guess_calls[1].questions[Rank(folds, t)] = PrefixOf(folds, t).text

\* guess was called on the batch of two folds with questions, the second fold of
\* the question store first
C4_Witness ==
    /\ GuessWasCalled
    /\ folds = <<"dev", "train">>
    /\ guess_calls[1].questions = <<"what", "name", "who", "who led">>
    /\ max_n_guesses = MaxN

\* C5: if guess returns a list whose length differs from the batch length (shorter
\* or longer), generate_guesses aborts with an assertion failure and returns no
\* guess table; no row is built from the mismatched result.
C5_LengthMismatchAborts ==
    (pc \in {"returned", "AssertionError"}
        /\ Len(guesses_per_question) # Len(question_texts))
    => (pc = "AssertionError" /\ guess_df = <<>>)

\* guess returned one list more than the batch holds, each with guesses, and
\* generate_guesses has aborted
C5_Witness ==
    /\ pc = "AssertionError"
    /\ Len(question_texts) > 0
    /\ Len(guesses_per_question) = Len(question_texts) + 1
    /\ \A i \in 1..Len(guesses_per_question) : guesses_per_question[i] # <<>>

RECURSIVE SumLens(_, _)
SumLens(gpq, n) == IF n = 0 THEN 0 ELSE Len(gpq[n]) + SumLens(gpq, n - 1)

\* C6: the table returned by generate_guesses holds, for each batch position i,
\* exactly one row per (answer, score) pair that guess returned at index i, in the
\* returned order, each row with the fold, qnum, sentence and token of the prefix
\* at position i and the display_name of the guesser; a position with an empty
\* guess list contributes no row, and there is no other row.
C6_RowsAreTheGuesses ==
    pc = "returned" =>
        /\ Len(guess_df) = SumLens(guesses_per_question, Len(guesses_per_question))
        /\ \A t \in BatchIndex(folds) :
            LET i == Rank(folds, t)
                origin == PrefixOf(folds, t)
            IN  \A j \in 1..Len(guesses_per_question[i]) :
                    guess_df[SumLens(guesses_per_question, i - 1) + j] =
                        [qnum |-> origin.qnum, sentence |-> origin.sentence,
                         token |-> origin.token,
                         guess |-> guesses_per_question[i][j][1],
                         score |-> guesses_per_question[i][j][2],
                         fold |-> origin.fold, guesser |-> display_name(self)]

\* a table was returned for a batch in which one position has no guess, the next
\* one two guesses and the third one a single guess, by the second guesser
C6_Witness ==
    /\ pc = "returned"
    /\ Len(guesses_per_question) >= 3
    /\ guesses_per_question[1] = <<>>
    /\ Len(guesses_per_question[2]) = 2
    /\ Len(guesses_per_question[3]) = 1
    /\ self = GUESSER_LIST[2]

RowsAt(df, qnum, sentence, token, guesser) ==
    {k \in 1..Len(df) : /\ df[k].qnum = qnum
                        /\ df[k].sentence = sentence
                        /\ df[k].token = token
                        /\ df[k].guesser = guesser}

\* C7: in the table generate_guesses(max_n_guesses, folds) returns there are, for
\* every (qnum, sentence, token, guesser), at most max_n_guesses rows, for any
\* guesser whose guess result has the batch length.
C7_AtMostMaxNGuesses ==
    pc = "returned" =>
        \A k \in 1..Len(guess_df) :
            Cardinality(RowsAt(guess_df, guess_df[k].qnum, guess_df[k].sentence,
                               guess_df[k].token, guess_df[k].guesser))
                <= max_n_guesses

(***************************************************************************)
(* Properties of preprocess_all_guesses (SpecAgg)                          *)
(***************************************************************************)
\* every guess file preprocess_all_guesses reads is there
AllGuessFilesExist ==
    \A g \in GUESSERS : \A i \in 1..Len(ALL_FOLDS) :
        FileExists(GuesserDirectory(g), ALL_FOLDS[i])

\* the rows of the combined table: the rows of the files of every guesser of
\* the registry, of every fold
CombinedRows ==
    UNION {RowsOf(disk[guess_path(GuesserDirectory(g), ALL_FOLDS[i])].rows) :
           g \in GUESSERS, i \in 1..Len(ALL_FOLDS)}

TASK_COLUMNS == {"qnum", "sentence", "token", "guess", "score", "fold"}

\* a row without its guesser column
WithoutGuesser(r) == [c \in TASK_COLUMNS |-> r[c]]

PositionOf(r) == <<r.qnum, r.sentence, r.token>>

CombinedPositions == {PositionOf(r) : r \in CombinedRows}

\* the tasks whose table is made of rows of position p
TasksOf(p) ==
    {i \in 1..Len(agg.tasks) :
        \A k \in 1..Len(agg.tasks[i].guess_df) : PositionOf(agg.tasks[i].guess_df[k]) = p}

\* C8: preprocess_all_guesses appends exactly one Task for each distinct (qnum,
\* sentence, token) of the combined table, and the guess table of that Task is the
\* set of distinct (qnum, sentence, token, guess, score, fold) rows of that
\* position, without the guesser column: rows of different guessers that agree on
\* the six columns collapse to one row, rows that differ in score or fold stay
\* separate.
C8_OneTaskPerPosition ==
    agg.status = "ok" =>
        /\ Len(agg.tasks) = Cardinality(CombinedPositions)
        /\ \A p \in CombinedPositions :
            /\ Cardinality(TasksOf(p)) = 1
            /\ \A i \in TasksOf(p) :
                /\ agg.tasks[i].question = question_map[p[1]]
                /\ RowsOf(agg.tasks[i].guess_df) =
                      {WithoutGuesser(r) : r \in {x \in CombinedRows : PositionOf(x) = p}}
                /\ Len(agg.tasks[i].guess_df) =
                      Cardinality(RowsOf(agg.tasks[i].guess_df))

\* two guessers agree on a row, one of them has a second row of the same position
\* with another score, there is a second position, and the tasks are built
C8_Witness ==
    /\ agg.status = "ok"
    /\ Len(agg.tasks) = 2
    /\ \E r1, r2 \in CombinedRows :
        /\ r1.guesser # r2.guesser
        /\ WithoutGuesser(r1) = WithoutGuesser(r2)
    /\ \E i \in 1..Len(agg.tasks) :
        /\ Len(agg.tasks[i].guess_df) = 2
        /\ agg.tasks[i].guess_df[1].score # agg.tasks[i].guess_df[2].score

\* C9: after preprocess_all_guesses succeeds, the coverage index maps each guesser
\* display name g to exactly the set of (qnum, sentence, token, guess) of the rows
\* of the combined table whose guesser is g: a tuple two guessers predicted is in
\* both sets, the collapse of duplicate rows takes nothing from any set, and no
\* guesser gets a tuple it did not produce.
C9_CoverageIndex ==
    agg.status = "ok" =>
        /\ index_file.exists
        /\ DOMAIN index_file.guess_map = {r.guesser : r \in CombinedRows}
        /\ \A g \in DOMAIN index_file.guess_map :
            index_file.guess_map[g] =
                {<<r.qnum, r.sentence, r.token, r.guess>> :
                    r \in {x \in CombinedRows : x.guesser = g}}

\* both guessers predicted the same tuple, one of them also predicted a tuple
\* the other did not, at the same position
C9_Witness ==
    /\ agg.status = "ok"
    /\ Cardinality(DOMAIN index_file.guess_map) = 2
    /\ \E g1, g2 \in DOMAIN index_file.guess_map :
        /\ g1 # g2
        /\ index_file.guess_map[g1] \cap index_file.guess_map[g2] # {}
        /\ \E t \in index_file.guess_map[g2] :
            /\ t \notin index_file.guess_map[g1]
            /\ \E u \in index_file.guess_map[g1] :
                u[1] = t[1] /\ u[2] = t[2] /\ u[3] = t[3]

PreprocessReturned == agg.status # "none"

\* C10: if the combined guess table holds a qnum that the question source does
\* not hold, preprocess_all_guesses aborts with an error instead of skipping that
\* group, before it writes the coverage index artifact or the task list artifact,
\* wherever the unknown qnum falls in the group order.
C10_UnknownQnumAborts ==
    (PreprocessReturned /\ AllGuessFilesExist
        /\ \E r \in CombinedRows : r.qnum \notin DOMAIN question_map)
    => (agg.status = "KeyError" /\ ~index_file.exists /\ ~tasks_file.exists)

\* the group of the unknown qnum comes last, after a group of a known qnum
C10_Witness ==
    /\ agg.status = "KeyError"
    /\ \E r, x \in CombinedRows :
        /\ r.qnum \notin DOMAIN question_map
        /\ x.qnum \in DOMAIN question_map
        /\ x.qnum < r.qnum
    /\ ~index_file.exists
    /\ ~tasks_file.exists

\* a call of preprocess_all_guesses that follows another one; the guess files, the
\* registry and the question source do not change between them
SecondRun == runs >= 1 /\ runs' = runs + 1 /\ disk' = disk /\ question_map' = question_map

\* C11: running preprocess_all_guesses twice in a row, with the persisted guess
\* files, the guesser registry and the question source unchanged between the runs,
\* leaves after the second run a coverage index and a task list with the content
\* they had after the first run; the second run does not add to or depend on the
\* artifacts the first run wrote.
C11_SecondRunSameArtifacts ==
    [][SecondRun => (index_file' = index_file /\ tasks_file' = tasks_file /\ agg' = agg)]_vars

\* a second run has succeeded and has written an index of two guessers and two
\* tasks
C11_Witness ==
    /\ runs = 2
    /\ agg.status = "ok"
    /\ index_file.exists
    /\ Cardinality(DOMAIN index_file.guess_map) = 2
    /\ tasks_file.exists
    /\ Len(tasks_file.tasks) = 2

====
